---- MODULE Spec2Model ----
(***************************************************************************)
(* Verification model of the conflux client library: the transaction       *)
(* confirmation pipeline (loop / PendingTransaction), the persistent       *)
(* JSON-RPC transport (WebsocketProvider), the Client objects, the         *)
(* Transaction codec and signer, Hex, the keystore and the Wallet.         *)
(*                                                                         *)
(* Time is counted in abstract ticks of Date.now().  A node query takes    *)
(* between 0 and MaxQueryTime ticks; sleep(ms) wakes exactly ms ticks      *)
(* later (immediately when ms <= 0).                                        *)
(***************************************************************************)
EXTENDS Integers, FiniteSets, Sequences, TLC

\* ------------------------------------------------------------------ bounds
MaxQueryTime == 2
MaxTimeout == 3
MaxDelta == 2
NumCalls == 2
MaxClients == 2
MaxSends == 3
MaxEdits == 2
MaxNumber == 300
MaxAccounts == 4

\* ------------------------------------------------------------- variables
VARIABLES
  \* --- confirmation pipeline (PendingTransaction + loop) ---
  op,            \* the wait that was called: mined / executed / confirmed / deployed
  opts,          \* its options: [delta, timeout, threshold]
  now,           \* Date.now()
  pc,            \* position of the async call chain
  outerTimer,    \* Timer of confirmed()'s loop: [startTime, lastTime]
  innerTimer,    \* Timer of the mined()/executed() loop: [startTime, lastTime]
  result,        \* settled value of the promise returned by the wait
  receipt,       \* confirmed(): the receipt its executed() call returned
  nodeTx,        \* what the node answers to cfx_getTransactionByHash
  nodeReceipt,   \* what the node answers to cfx_getTransactionReceipt
  obs,           \* history: observations and invocations made by the wait
  \* --- persistent transport (WebsocketProvider) ---
  variant,       \* which of the two WebsocketProvider sources is running
  callPc,        \* per call(): position in call()/getWS()
  callWs,        \* per call(): the socket getWS() returned to it
  outcome,       \* per call(): state of the promise call() returned
  timer,         \* per call(): state of timeoutHandle
  listeners,     \* ids with a once-listener registered on messageEvent
  conns,         \* per socket: readyState ("NONE" before new WS())
  thisWs,        \* this.ws (0: undefined)
  sent,          \* requests that reached the server: [conn, id]
  crashed,       \* an exception escaped an event handler
  hist,          \* history of the transport: sockets opened and sent on, order of the settlements, last event
  \* --- Client objects ---
  nClients,      \* Client objects constructed so far (client c is the c-th)
  proto,         \* Client.prototype.sendTransaction / .sendRawTransaction
  sends,         \* history: the sendTransaction / sendRawTransaction invocations
  \* --- two executed() waits on different transaction hashes ---
  wPc,           \* per wait: position in executed() / loop()
  wTimer,        \* per wait: the Timer of its loop: [startTime, lastTime]
  wAt,           \* per wait: when its pending query was issued / when its sleep ends
  wResult,       \* per wait: settled value of the promise it returned
  wNode,         \* per hash: what the node answers to cfx_getTransactionReceipt
  wObs,          \* per wait: history: when it settled and where the other wait was
  \* --- one Transaction object ---
  txn,           \* its fields: nonce, gasPrice, gas, to, value, data, r, s, v
  signer,        \* history: the key of the last sign() (0: never signed)
  signedTx,      \* history: the fields as the constructor or the last sign() left them
  edits,         \* history: the number of direct assignments to its fields
  \* --- one number on its way through Hex and Hex.toBuffer ---
  num,           \* a non-negative integer
  hexOf,         \* Hex(num), undefined before the call
  bufOf,         \* Hex.toBuffer(hexOf), undefined before the call
  \* --- the keystore: PrivateKey.encrypt and PrivateKey.decrypt ---
  ksKey,         \* the private key handed to PrivateKey.encrypt
  ksPassword,    \* the password handed to PrivateKey.encrypt
  ksRecord,      \* the keystore record: version, salt, iv, cipher, mac
  ksTampered,    \* history: the fields of the record altered since encrypt
  ksResult,      \* what PrivateKey.decrypt returned or threw
  \* --- one Wallet ---
  accountMap,    \* Wallet.accountMap: key (address or private key) to Account object
  created,       \* the number of Account objects constructed so far
  walletLast     \* history: the last call on the wallet, its argument and what it returned

pollVars == <<op, opts, now, pc, outerTimer, innerTimer, result, receipt, nodeTx, nodeReceipt, obs>>
wsVars == <<variant, callPc, callWs, outcome, timer, listeners, conns, thisWs, sent, crashed, hist>>
clientVars == <<nClients, proto, sends>>
pairVars == <<wPc, wTimer, wAt, wResult, wNode, wObs>>
txVars == <<txn, signer, signedTx, edits>>
hexVars == <<num, hexOf, bufOf>>
ksVars == <<ksKey, ksPassword, ksRecord, ksTampered, ksResult>>
walletVars == <<accountMap, created, walletLast>>
vars == <<pollVars, wsVars, clientVars, pairVars, txVars, hexVars, ksVars, walletVars>>
notPollVars == <<wsVars, clientVars, pairVars, txVars, hexVars, ksVars, walletVars>>
notWsVars == <<pollVars, clientVars, pairVars, txVars, hexVars, ksVars, walletVars>>
notClientVars == <<pollVars, wsVars, pairVars, txVars, hexVars, ksVars, walletVars>>
notPairVars == <<op, pc, outerTimer, innerTimer, result, receipt, nodeTx, nodeReceipt, obs,
                 wsVars, clientVars, txVars, hexVars, ksVars, walletVars>>
notTxVars == <<pollVars, wsVars, clientVars, pairVars, hexVars, ksVars, walletVars>>
notHexVars == <<pollVars, wsVars, clientVars, pairVars, txVars, ksVars, walletVars>>
notKsVars == <<pollVars, wsVars, clientVars, pairVars, txVars, hexVars, walletVars>>
notWalletVars == <<pollVars, wsVars, clientVars, pairVars, txVars, hexVars, ksVars>>

Max(a, b) == IF a >= b THEN a ELSE b

\* Values of the transport's state (the transport is described further down).
Calls == 1..NumCalls
Variants == {"A", "B"}
Pending == [kind |-> "pending", of |-> 0]
Ev(e, k) == [ev |-> e, id |-> k]
Other == Ev("other", 0)
NoHist == [opened |-> {}, sentOn |-> {}, log |-> <<>>, delivered |-> {}, beside |-> {}, last |-> Other]

\* Client.prototype as the class declares it: the method itself, not bound
\* (base 0) and not wrapped (after empty).
Methods == {"sendTransaction", "sendRawTransaction"}
Original == [base |-> 0, after |-> <<>>]

\* No Client object exists.
ClientOff ==
  /\ nClients = 0
  /\ proto = [n \in Methods |-> Original]
  /\ sends = <<>>

\* A hex string is written as the bytes after its "0x": "0x" is <<>>, "0x00"
\* is <<0>>.  Undefined is the value undefined, which is no hex string.
Undefined == <<-1>>
SixFields == {"nonce", "gasPrice", "gas", "to", "value", "data"}
SigFields == {"r", "s", "v"}

\* No Transaction object exists.
TxOff ==
  /\ txn = [f \in SixFields \cup SigFields |-> Undefined]
  /\ signer = 0
  /\ signedTx = [f \in SixFields \cup SigFields |-> Undefined]
  /\ edits = 0

\* No conversion is running.
HexOff ==
  /\ num = 0
  /\ hexOf = Undefined
  /\ bufOf = Undefined

\* No keystore record exists.
NoRecord == [version |-> "", salt |-> <<>>, iv |-> <<>>, cipher |-> <<>>, mac |-> <<>>]
NoKsResult == [kind |-> "none", password |-> "", key |-> Undefined, deciphered |-> FALSE]
KsOff ==
  /\ ksKey = <<>>
  /\ ksPassword = ""
  /\ ksRecord = NoRecord
  /\ ksTampered = {}
  /\ ksResult = NoKsResult

\* No wallet is in use.
NoAccount == [id |-> 0, privateKey |-> <<>>, address |-> <<>>]
NoWalletCall == [op |-> "none", arg |-> <<>>, ret |-> NoAccount]
WalletOff ==
  /\ accountMap = [key \in {} |-> NoAccount]
  /\ created = 0
  /\ walletLast = NoWalletCall

\* No pair of waits is running.
Waits == {1, 2}
NoWaitObs == [doneAt |-> -1, peerPc |-> "off"]
PairOff ==
  /\ wPc = [w \in Waits |-> "off"]
  /\ wTimer = [w \in Waits |-> [startTime |-> 0, lastTime |-> 0]]
  /\ wAt = [w \in Waits |-> 0]
  /\ wResult = [w \in Waits |-> [kind |-> "none", receipt |-> [status |-> -1, block |-> 0]]]
  /\ wNode = [w \in Waits |-> [status |-> -1, block |-> 0]]
  /\ wObs = [w \in Waits |-> NoWaitObs]

\* =========================================================================
\* Confirmation pipeline: loop(), Timer, PendingTransaction
\* =========================================================================
Ops == {"mined", "executed", "confirmed", "deployed"}
Blocks == {1, 2}
NullReceipt == [status |-> -1, block |-> 0]
Receipts == [status : {0, 1}, block : Blocks]
TxStates == {"null", "pending", "mined"}
NoResult == [kind |-> "none", receipt |-> NullReceipt]

\* getRiskCoefficient: the rpc is not implemented, the client answers 0.
\* Thresholds are counted in hundredths, so the default 0.01 is 1.
getRiskCoefficient(blockHash) == 0
DefaultThreshold == 1
Thresholds == {0, DefaultThreshold}

\* options.threshold when the caller supplies none (undefined).
NoThreshold == -1

\* confirmed({ threshold = 0.01, ...options } = {})
Threshold(o) == IF o.threshold = NoThreshold THEN DefaultThreshold ELSE o.threshold

\* Starts and ends of the last two observations of a loop (-1: none yet).
NoGap == [prevStart |-> -1, prevEnd |-> -1, start |-> -1, end |-> -1]
NextObs(g, t) == [prevStart |-> g.start, prevEnd |-> g.end, start |-> t, end |-> -1]

NoObs ==
  [runObs |-> NullReceipt, queryAfterObs |-> FALSE, execRet |-> NullReceipt,
   iterRet |-> NullReceipt, riskQueried |-> FALSE, minedSeen |-> FALSE,
   anyQuery |-> FALSE, lateInvoke |-> FALSE, riskOf |-> 0,
   iGap |-> NoGap, oGap |-> NoGap]

\* A node never reports a receipt for a transaction it does not report mined.
NodeOk(tx, rcpt) == rcpt # NullReceipt => tx = "mined"

PollInit ==
  /\ op \in Ops
  /\ opts \in [delta : 0..MaxDelta, timeout : 0..MaxTimeout,
               threshold : Thresholds \cup {NoThreshold}]
  /\ now = 0
  /\ pc = "idle"
  /\ outerTimer = [startTime |-> 0, lastTime |-> 0]
  /\ innerTimer = [startTime |-> 0, lastTime |-> 0]
  /\ result = NoResult
  /\ receipt = NullReceipt
  /\ nodeTx \in TxStates
  /\ nodeReceipt \in Receipts \cup {NullReceipt}
  /\ NodeOk(nodeTx, nodeReceipt)
  /\ obs = NoObs
  /\ ClientOff
  /\ PairOff
  /\ TxOff
  /\ HexOff
  /\ KsOff
  /\ WalletOff
  /\ variant = "A"
  /\ callPc = [k \in Calls |-> "off"]
  /\ callWs = [k \in Calls |-> 0]
  /\ outcome = [k \in Calls |-> Pending]
  /\ timer = [k \in Calls |-> "none"]
  /\ listeners = {}
  /\ conns = [c \in Calls |-> "NONE"]
  /\ thisWs = 0
  /\ sent = {}
  /\ crashed = FALSE
  /\ hist = NoHist

\* new Timer()
NewTimer == [startTime |-> now, lastTime |-> now]

\* Variant of LoopGuard: the deadline test lets the boundary through.
LoopGuard_Inclusive(t, timeout) == now - t.startTime <= timeout

\* loop: while (timer.duration < timeout)
LoopGuard(t, timeout) == now - t.startTime < timeout

\* Variant of TimerDelta: the interval is counted from the end of the query.
TimerDelta_AfterQuery(t, ms) == now + ms

\* Timer.delta(ms): sleep(ms + lastTime - Date.now()); the time it wakes at.
TimerDelta(t, ms) == Max(now, t.lastTime + ms)

\* Variant of ExecutedFunc: a receipt with a failed outcome is polled again.
ExecutedFunc_Retry(rcpt) ==
  IF rcpt # NullReceipt /\ rcpt.status = 0 THEN "return" ELSE "continue"

\* The body executed() hands to loop().
ExecutedFunc(rcpt) ==
  IF rcpt # NullReceipt
  THEN IF rcpt.status = 0 THEN "return" ELSE "throw"
  ELSE "continue"

\* The body mined() hands to loop(): tx.blockHash of a null tx is a TypeError.
MinedFunc(tx) ==
  CASE tx = "null" -> "typeerror"
    [] tx = "mined" -> "return"
    [] OTHER -> "continue"

\* Variant of ConfirmedFunc: a risk equal to the threshold is accepted.
ConfirmedFunc_Inclusive(rcpt, threshold) == getRiskCoefficient(rcpt.block) <= threshold

\* confirmed(): getRiskCoefficient(receipt.blockHash) < threshold
ConfirmedFunc(rcpt, threshold) == getRiskCoefficient(rcpt.block) < threshold

Throw(kind) ==
  /\ pc' = "done"
  /\ result' = [kind |-> kind, receipt |-> NullReceipt]

Return(kind, rcpt) ==
  /\ pc' = "done"
  /\ result' = [kind |-> kind, receipt |-> rcpt]

\* The caller invokes mined(), executed(), confirmed() or deployed().
PollCall ==
  /\ pc = "idle"
  /\ IF op \in {"mined", "executed"}
     THEN /\ innerTimer' = NewTimer
          /\ pc' = "i_check"
          /\ UNCHANGED outerTimer
     ELSE /\ outerTimer' = NewTimer
          /\ pc' = "o_check"
          /\ UNCHANGED innerTimer
  /\ UNCHANGED <<op, opts, now, result, receipt, nodeTx, nodeReceipt, obs>>
  /\ UNCHANGED notPollVars

\* Variant of OuterCheck: func() reads the node's receipt itself and goes
\* straight to the risk query, without waiting for executed().
OuterCheck_SkipExecuted ==
  /\ pc = "o_check"
  /\ IF LoopGuard(outerTimer, opts.timeout)
     THEN /\ pc' = "o_risk"
          /\ receipt' = nodeReceipt
          /\ obs' = [obs EXCEPT !.runObs = NullReceipt, !.queryAfterObs = FALSE,
                                !.iterRet = NullReceipt, !.riskQueried = FALSE,
                                !.riskOf = 0, !.iGap = NoGap, !.oGap = NextObs(@, now)]
          /\ UNCHANGED result
     ELSE /\ Throw("Timeout")
          /\ UNCHANGED <<receipt, obs>>
  /\ UNCHANGED <<op, opts, now, outerTimer, innerTimer, nodeTx, nodeReceipt>>
  /\ UNCHANGED notPollVars

\* confirmed()'s loop: the deadline check, then func() = executed(options),
\* which starts a loop of its own with a new Timer.
OuterCheck ==
  /\ pc = "o_check"
  /\ IF LoopGuard(outerTimer, opts.timeout)
     THEN /\ pc' = "i_check"
          /\ innerTimer' = NewTimer
          /\ obs' = [obs EXCEPT !.runObs = NullReceipt, !.queryAfterObs = FALSE,
                                !.iterRet = NullReceipt, !.riskQueried = FALSE,
                                !.riskOf = 0, !.iGap = NoGap, !.oGap = NextObs(@, now),
                                !.lateInvoke = @ \/ (now - outerTimer.startTime >= opts.timeout)]
          /\ UNCHANGED result
     ELSE /\ Throw("Timeout")
          /\ UNCHANGED <<innerTimer, obs>>
  /\ UNCHANGED <<op, opts, now, outerTimer, receipt, nodeTx, nodeReceipt>>
  /\ UNCHANGED notPollVars

\* The loop of mined() / executed(): the deadline check, then func() issues
\* its query (getTransactionByHash / getTransactionReceipt).
InnerCheck ==
  /\ pc = "i_check"
  /\ IF LoopGuard(innerTimer, opts.timeout)
     THEN /\ pc' = "i_query"
          /\ obs' = [obs EXCEPT !.anyQuery = TRUE,
                                !.iGap = NextObs(@, now),
                                !.queryAfterObs = @ \/ (obs.runObs # NullReceipt),
                                !.lateInvoke = @ \/ (now - innerTimer.startTime >= opts.timeout)]
          /\ UNCHANGED result
     ELSE /\ Throw("Timeout")
          /\ UNCHANGED obs
  /\ UNCHANGED <<op, opts, now, outerTimer, innerTimer, receipt, nodeTx, nodeReceipt>>
  /\ UNCHANGED notPollVars

\* The query of mined() settles after d ticks.
MinedReply(d, ok) ==
  /\ pc = "i_query"
  /\ op = "mined"
  /\ now' = now + d
  /\ IF ~ok
     THEN Throw("TransportError") /\ UNCHANGED obs
     ELSE CASE MinedFunc(nodeTx) = "typeerror" -> Throw("TypeError") /\ UNCHANGED obs
            [] MinedFunc(nodeTx) = "return" ->
                 /\ Return("tx", NullReceipt)
                 /\ obs' = [obs EXCEPT !.minedSeen = TRUE]
            [] OTHER ->
                 /\ pc' = "i_sleep"
                 /\ obs' = [obs EXCEPT !.iGap.end = now']
                 /\ UNCHANGED result
  /\ UNCHANGED <<op, opts, outerTimer, innerTimer, receipt, nodeTx, nodeReceipt>>
  /\ UNCHANGED notPollVars

\* The query of executed() settles after d ticks.
ExecutedReply(d, ok) ==
  /\ pc = "i_query"
  /\ op # "mined"
  /\ now' = now + d
  /\ IF ~ok
     THEN Throw("TransportError") /\ UNCHANGED <<receipt, obs>>
     ELSE LET r == nodeReceipt
              seen == IF obs.runObs = NullReceipt THEN r ELSE obs.runObs
          IN CASE ExecutedFunc(r) = "throw" ->
                    /\ Throw("OutcomeFailure")
                    /\ obs' = [obs EXCEPT !.runObs = seen]
                    /\ UNCHANGED receipt
               [] ExecutedFunc(r) = "return" ->
                    /\ obs' = [obs EXCEPT !.runObs = seen, !.execRet = r, !.iterRet = r]
                    /\ IF op = "executed"
                       THEN Return("receipt", r) /\ UNCHANGED receipt
                       ELSE pc' = "o_risk" /\ receipt' = r /\ UNCHANGED result
               [] OTHER ->
                    /\ pc' = "i_sleep"
                    /\ obs' = [obs EXCEPT !.runObs = seen, !.iGap.end = now']
                    /\ UNCHANGED <<result, receipt>>
  /\ UNCHANGED <<op, opts, outerTimer, innerTimer, nodeTx, nodeReceipt>>
  /\ UNCHANGED notPollVars

\* await timer.delta(delta) of the mined() / executed() loop
InnerSleep ==
  /\ pc = "i_sleep"
  /\ now' = TimerDelta(innerTimer, opts.delta)
  /\ innerTimer' = [innerTimer EXCEPT !.lastTime = now']
  /\ pc' = "i_check"
  /\ UNCHANGED <<op, opts, outerTimer, result, receipt, nodeTx, nodeReceipt, obs>>
  /\ UNCHANGED notPollVars

\* confirmed(): the risk of the receipt executed() returned; deployed()
\* returns contractCreated of the receipt confirmed() returned.
RiskReply ==
  /\ pc = "o_risk"
  /\ obs' = [obs EXCEPT !.riskQueried = TRUE, !.riskOf = receipt.block, !.oGap.end = now]
  /\ IF ConfirmedFunc(receipt, Threshold(opts))
     THEN IF op = "deployed"
          THEN IF receipt.status = 0
               THEN Return("address", receipt)
               ELSE Throw("OutcomeFailure")
          ELSE Return("receipt", receipt)
     ELSE pc' = "o_sleep" /\ UNCHANGED result
  /\ UNCHANGED <<op, opts, now, outerTimer, innerTimer, receipt, nodeTx, nodeReceipt>>
  /\ UNCHANGED notPollVars

\* await timer.delta(delta) of confirmed()'s loop
OuterSleep ==
  /\ pc = "o_sleep"
  /\ now' = TimerDelta(outerTimer, opts.delta)
  /\ outerTimer' = [outerTimer EXCEPT !.lastTime = now']
  /\ pc' = "o_check"
  /\ UNCHANGED <<op, opts, innerTimer, result, receipt, nodeTx, nodeReceipt, obs>>
  /\ UNCHANGED notPollVars

\* The ledger moves on: the transaction is packed, executed, or reverted.
NodeStep ==
  /\ pc \in {"idle", "o_check", "i_check", "i_query", "i_sleep", "o_risk", "o_sleep"}
  /\ nodeTx' \in TxStates
  /\ nodeReceipt' \in Receipts \cup {NullReceipt}
  /\ NodeOk(nodeTx', nodeReceipt')
  /\ <<nodeTx', nodeReceipt'>> # <<nodeTx, nodeReceipt>>
  /\ UNCHANGED <<op, opts, now, pc, outerTimer, innerTimer, result, receipt, obs>>
  /\ UNCHANGED notPollVars

PollNext ==
  \/ PollCall
  \/ OuterCheck
  \/ InnerCheck
  \/ \E d \in 0..MaxQueryTime, ok \in BOOLEAN : MinedReply(d, ok)
  \/ \E d \in 0..MaxQueryTime, ok \in BOOLEAN : ExecutedReply(d, ok)
  \/ InnerSleep
  \/ RiskReply
  \/ OuterSleep
  \/ NodeStep

\* =========================================================================
\* Persistent transport: WebsocketProvider
\* =========================================================================
\* Calls are numbered in the order they are issued.  requestId() is a
\* millisecond timestamp followed by seven random digits; call k carries
\* id k.  The socket opened by call k is socket k.  readyState CLOSING and
\* CLOSED are one state, "CLOSED": the code never tells them apart.

WsInit ==
  /\ variant \in Variants
  /\ callPc = [k \in Calls |-> "idle"]
  /\ callWs = [k \in Calls |-> 0]
  /\ outcome = [k \in Calls |-> Pending]
  /\ timer = [k \in Calls |-> "none"]
  /\ listeners = {}
  /\ conns = [c \in Calls |-> "NONE"]
  /\ thisWs = 0
  /\ sent = {}
  /\ crashed = FALSE
  /\ hist = NoHist
  /\ op = "mined"
  /\ opts = [delta |-> 0, timeout |-> 0, threshold |-> 0]
  /\ now = 0
  /\ pc = "off"
  /\ outerTimer = [startTime |-> 0, lastTime |-> 0]
  /\ innerTimer = [startTime |-> 0, lastTime |-> 0]
  /\ result = NoResult
  /\ receipt = NullReceipt
  /\ nodeTx = "null"
  /\ nodeReceipt = NullReceipt
  /\ obs = NoObs
  /\ ClientOff
  /\ PairOff
  /\ TxOff
  /\ HexOff
  /\ KsOff
  /\ WalletOff


\* getWS(): the test that decides whether a new socket is opened.
\*   A: !this.ws || this.ws.readyState !== WS.OPEN
\*   B: !this.ws || [WS.CLOSED, WS.CLOSING].includes(this.ws.readyState)
NeedsNewWS ==
  \/ thisWs = 0
  \/ IF variant = "A" THEN conns[thisWs] # "OPEN" ELSE conns[thisWs] = "CLOSED"

\* Variant of Settle: a later resolve/reject replaces the outcome.
Settle_Overwrite(o, kind, of) == [kind |-> kind, of |-> of]

\* resolve(result) / reject(error) of the promise call() returned: a settled
\* promise keeps its state.
Settle(o, kind, of) == IF o.kind = "pending" THEN [kind |-> kind, of |-> of] ELSE o

\* Variant of EmitTargets: the message is handed to every listener.
EmitTargets_All(id) == listeners

\* messageEvent.emit(body.id, body): the listeners the message is handed to.
EmitTargets(id) == listeners \cap {id}

Settled(old, new) == {k \in Calls : old[k].kind = "pending" /\ new[k].kind # "pending"}

\* The requests that are in flight while another one is settled.
Beside(new) == {j \in Calls : callPc[j] = "waiting" /\ new[j].kind = "pending"}

\* Variant of CallStart: getWS() stores the new socket in this.ws before it
\* has opened.
CallStart_EarlyAssign(k) ==
  /\ ~crashed
  /\ callPc[k] = "idle"
  /\ \A j \in Calls : j < k => callPc[j] # "idle"
  /\ IF NeedsNewWS
     THEN /\ conns' = [conns EXCEPT ![k] = "CONNECTING"]
          /\ callPc' = [callPc EXCEPT ![k] = "connecting"]
          /\ thisWs' = k
          /\ UNCHANGED callWs
     ELSE /\ callPc' = [callPc EXCEPT ![k] = "ready"]
          /\ callWs' = [callWs EXCEPT ![k] = thisWs]
          /\ UNCHANGED <<conns, thisWs>>
  /\ hist' = [hist EXCEPT !.last = Other]
  /\ UNCHANGED <<variant, outcome, timer, listeners, sent, crashed>>
  /\ UNCHANGED notWsVars

\* call() up to `await this.getWS()`, and getWS() up to its first await.
CallStart(k) ==
  /\ ~crashed
  /\ callPc[k] = "idle"
  /\ \A j \in Calls : j < k => callPc[j] # "idle"
  /\ IF NeedsNewWS
     THEN /\ conns' = [conns EXCEPT ![k] = "CONNECTING"]
          /\ callPc' = [callPc EXCEPT ![k] = "connecting"]
          /\ UNCHANGED callWs
     ELSE /\ callPc' = [callPc EXCEPT ![k] = "ready"]
          /\ callWs' = [callWs EXCEPT ![k] = thisWs]
          /\ UNCHANGED conns
  /\ hist' = [hist EXCEPT !.last = Other]
  /\ UNCHANGED <<variant, outcome, timer, listeners, thisWs, sent, crashed>>
  /\ UNCHANGED notWsVars

\* The socket's 'open' event: getWS() resumes, sets this.ws and returns it.
ConnOpen(c) ==
  /\ ~crashed
  /\ conns[c] = "CONNECTING"
  /\ conns' = [conns EXCEPT ![c] = "OPEN"]
  /\ thisWs' = c
  /\ callPc' = [callPc EXCEPT ![c] = "ready"]
  /\ callWs' = [callWs EXCEPT ![c] = c]
  /\ hist' = [hist EXCEPT !.last = Other, !.opened = @ \cup {c}]
  /\ UNCHANGED <<variant, outcome, timer, listeners, sent, crashed>>
  /\ UNCHANGED notWsVars

\* The socket's 'error' event before 'open' (the connection is refused).
\*   A: the once('error') handler throws inside the event handler
\*   B: the handler is empty; the 'open' promise never resolves
ConnError(c) ==
  /\ ~crashed
  /\ conns[c] = "CONNECTING"
  /\ conns' = [conns EXCEPT ![c] = "CLOSED"]
  /\ crashed' = (variant = "A")
  /\ hist' = [hist EXCEPT !.last = Other]
  /\ UNCHANGED <<variant, callPc, callWs, outcome, timer, listeners, thisWs, sent>>
  /\ UNCHANGED notWsVars

\* The peer or the network closes an open socket.
ConnClosed(c) ==
  /\ ~crashed
  /\ conns[c] = "OPEN"
  /\ conns' = [conns EXCEPT ![c] = "CLOSED"]
  /\ hist' = [hist EXCEPT !.last = Other]
  /\ UNCHANGED <<variant, callPc, callWs, outcome, timer, listeners, thisWs, sent, crashed>>
  /\ UNCHANGED notWsVars

\* call() after getWS() returned: the promise executor arms the timer,
\* registers the once-listener and sends.  A socket that is not open
\* transmits nothing.
CallSend(k) ==
  /\ ~crashed
  /\ callPc[k] = "ready"
  /\ callPc' = [callPc EXCEPT ![k] = "waiting"]
  /\ timer' = [timer EXCEPT ![k] = "armed"]
  /\ listeners' = listeners \cup {k}
  /\ sent' = IF conns[callWs[k]] = "OPEN"
             THEN sent \cup {[conn |-> callWs[k], id |-> k]}
             ELSE sent
  /\ hist' = [hist EXCEPT !.last = Other, !.sentOn = @ \cup {callWs[k]}]
  /\ UNCHANGED <<variant, callWs, outcome, conns, thisWs, crashed>>
  /\ UNCHANGED notWsVars

\* The server answers request `id` on socket c (a first or a repeated
\* answer) and the 'message' handler emits it on messageEvent.
Message(c, id, kind) ==
  /\ ~crashed
  /\ conns[c] = "OPEN"
  /\ [conn |-> c, id |-> id] \in sent
  /\ LET to == EmitTargets(id)
     IN /\ listeners' = listeners \ to
        /\ timer' = [k \in Calls |->
                       IF k \in to /\ timer[k] = "armed" THEN "cleared" ELSE timer[k]]
        /\ outcome' = [k \in Calls |->
                         IF k \in to THEN Settle(outcome[k], kind, id) ELSE outcome[k]]
        /\ to # {}
        /\ hist' = [hist EXCEPT !.last = Other, !.delivered = @ \cup to,
                                !.log = IF Settled(outcome, outcome') = {} THEN @
                                       ELSE Append(@, Ev("settle", id)),
                                !.beside = IF Settled(outcome, outcome') = {} THEN @
                                          ELSE @ \cup Beside(outcome')]
  /\ UNCHANGED <<variant, callPc, callWs, conns, thisWs, sent, crashed>>
  /\ UNCHANGED notWsVars

\* Variant of TimerExpire: the expiry also terminates the socket.
TimerExpire_Teardown(k) ==
  /\ ~crashed
  /\ timer[k] = "armed"
  /\ timer' = [timer EXCEPT ![k] = "fired"]
  /\ outcome' = [outcome EXCEPT ![k] = Settle(@, "timeout", k)]
  /\ conns' = [conns EXCEPT ![callWs[k]] = "CLOSED"]
  /\ hist' = [hist EXCEPT !.last = Other, !.log = IF Settled(outcome, outcome') = {} THEN @ ELSE Append(@, Ev("settle", k)),
                          !.beside = IF Settled(outcome, outcome') = {} THEN @ ELSE @ \cup Beside(outcome')]
  /\ UNCHANGED <<variant, callPc, callWs, listeners, thisWs, sent, crashed>>
  /\ UNCHANGED notWsVars

\* Variant of TimerExpire: the expiry rejects every request still waiting.
TimerExpire_RejectAll(k) ==
  /\ ~crashed
  /\ timer[k] = "armed"
  /\ timer' = [timer EXCEPT ![k] = "fired"]
  /\ outcome' = [j \in Calls |->
                   IF j = k \/ callPc[j] = "waiting" THEN Settle(outcome[j], "timeout", j)
                   ELSE outcome[j]]
  /\ hist' = [hist EXCEPT !.last = Other, !.log = IF Settled(outcome, outcome') = {} THEN @ ELSE Append(@, Ev("settle", k)),
                          !.beside = IF Settled(outcome, outcome') = {} THEN @ ELSE @ \cup Beside(outcome')]
  /\ UNCHANGED <<variant, callPc, callWs, listeners, conns, thisWs, sent, crashed>>
  /\ UNCHANGED notWsVars

\* The per-request timer fires.
TimerExpire(k) ==
  /\ ~crashed
  /\ timer[k] = "armed"
  /\ timer' = [timer EXCEPT ![k] = "fired"]
  /\ outcome' = [outcome EXCEPT ![k] = Settle(@, "timeout", k)]
  /\ hist' = [hist EXCEPT !.last = Other, !.log = IF Settled(outcome, outcome') = {} THEN @ ELSE Append(@, Ev("settle", k)),
                          !.beside = IF Settled(outcome, outcome') = {} THEN @ ELSE @ \cup Beside(outcome')]
  /\ UNCHANGED <<variant, callPc, callWs, listeners, conns, thisWs, sent, crashed>>
  /\ UNCHANGED notWsVars

\* Variant of ErrorAfterOpen: the handler lets the error escape.
ErrorAfterOpen_Throw(c) ==
  /\ ~crashed
  /\ conns[c] \in {"OPEN", "CLOSED"}
  /\ crashed' = TRUE
  /\ hist' = [hist EXCEPT !.last = Ev("error", c)]
  /\ UNCHANGED <<variant, callPc, callWs, outcome, timer, listeners, conns, thisWs, sent>>
  /\ UNCHANGED notWsVars

\* The socket's 'error' event once the 'open' handler has run; the socket
\* is open or already closing when the event is emitted.
\*   A: ws.on('error', () => { if (ws.readyState === WS.OPEN) ws.terminate(); })
\*   B: ws.on('error', () => {})
ErrorAfterOpen(c) ==
  /\ ~crashed
  /\ conns[c] \in {"OPEN", "CLOSED"}
  /\ conns' = [conns EXCEPT ![c] = IF variant = "A" /\ @ = "OPEN" THEN "CLOSED" ELSE @]
  /\ hist' = [hist EXCEPT !.last = Ev("error", c)]
  /\ UNCHANGED <<variant, callPc, callWs, outcome, timer, listeners, thisWs, sent, crashed>>
  /\ UNCHANGED notWsVars

\* Variant of CloseWaiters: close() rejects the requests still waiting.
CloseWaiters_Reject ==
  /\ outcome' = [k \in Calls |->
                   IF callPc[k] = "waiting" THEN Settle(outcome[k], "error", 0) ELSE outcome[k]]
  /\ UNCHANGED timer

\* Variant of CloseWaiters: close() cancels the timers of the requests in flight.
CloseWaiters_ClearTimers ==
  /\ timer' = [k \in Calls |-> IF timer[k] = "armed" THEN "cleared" ELSE timer[k]]
  /\ UNCHANGED outcome

\* close() touches neither the promises nor the timers of the requests in flight.
CloseWaiters == UNCHANGED <<outcome, timer>>

\* close(): if (this.ws) { this.ws.terminate(); this.messageEvent.removeAllListeners(); }
Close ==
  /\ ~crashed
  /\ IF thisWs # 0
     THEN /\ conns' = [conns EXCEPT ![thisWs] = "CLOSED"]
          /\ listeners' = {}
          /\ CloseWaiters
     ELSE UNCHANGED <<conns, listeners, outcome, timer>>
  /\ hist' = [hist EXCEPT !.last = Ev("close", 0)]
  /\ UNCHANGED <<variant, callPc, callWs, thisWs, sent, crashed>>
  /\ UNCHANGED notWsVars

WsNext ==
  \/ \E k \in Calls : CallStart(k)
  \/ \E c \in Calls : ConnOpen(c)
  \/ \E c \in Calls : ConnError(c)
  \/ \E c \in Calls : ConnClosed(c)
  \/ \E k \in Calls : CallSend(k)
  \/ \E c \in Calls, id \in Calls, kind \in {"result", "error"} : Message(c, id, kind)
  \/ \E k \in Calls : TimerExpire(k)
  \/ \E c \in Calls : ErrorAfterOpen(c)
  \/ Close

\* =========================================================================
\* Client: the wrappers the constructor installs on Client.prototype
\* =========================================================================
\* A value of Client.prototype[name] is the class's method, bound to the
\* client `base` (0: not bound), inside one wrapper
\*   (...args) => after(method(...args))
\* per entry of `after` (innermost first); the wrapper of client c returns
\* new PendingTransaction(c, result).
Clients == 1..MaxClients

\* The transport is not in use.
WsOff ==
  /\ variant = "A"
  /\ callPc = [k \in Calls |-> "off"]
  /\ callWs = [k \in Calls |-> 0]
  /\ outcome = [k \in Calls |-> Pending]
  /\ timer = [k \in Calls |-> "none"]
  /\ listeners = {}
  /\ conns = [c \in Calls |-> "NONE"]
  /\ thisWs = 0
  /\ sent = {}
  /\ crashed = FALSE
  /\ hist = NoHist

\* No wait is running.
PollOff ==
  /\ op = "mined"
  /\ opts = [delta |-> 0, timeout |-> 0, threshold |-> 0]
  /\ now = 0
  /\ pc = "off"
  /\ outerTimer = [startTime |-> 0, lastTime |-> 0]
  /\ innerTimer = [startTime |-> 0, lastTime |-> 0]
  /\ result = NoResult
  /\ receipt = NullReceipt
  /\ nodeTx = "null"
  /\ nodeReceipt = NullReceipt
  /\ obs = NoObs

ClientInit ==
  /\ ClientOff
  /\ PollOff
  /\ WsOff
  /\ PairOff
  /\ TxOff
  /\ HexOff
  /\ KsOff
  /\ WalletOff

\* this[name].bind(this): binds the class's method to c; a method that is
\* bound already, and an arrow function, keep their `this`.
Bind(m, c) == IF m.after = <<>> /\ m.base = 0 THEN [m EXCEPT !.base = c] ELSE m

\* _afterExecution(name, after):
\*   const method = this[name].bind(this);
\*   this.constructor.prototype[name] = (...args) => after(method(...args));
AfterExecution(m, c) == [base |-> Bind(m, c).base, after |-> Append(m.after, c)]

\* The client whose provider name() reaches when it is invoked on client x.
Receiver(name, x) == IF proto[name].base = 0 THEN x ELSE proto[name].base

\* The providers an invocation of name() on client x calls, in order:
\* sendRawTransaction calls this.provider.call once; sendTransaction calls it
\* once itself (remote signing) or goes through this.sendRawTransaction
\* (local signing).
Via(name, x, local) ==
  IF name = "sendTransaction" /\ local
  THEN <<Receiver("sendRawTransaction", Receiver(name, x))>>
  ELSE <<Receiver(name, x)>>

\* The client of the PendingTransaction an invocation of name() returns
\* (0: the bare promise): the one of the outermost wrapper.
BoundTo(name) ==
  IF proto[name].after = <<>> THEN 0 ELSE proto[name].after[Len(proto[name].after)]

\* new Client(options)
NewClient ==
  /\ nClients < MaxClients
  /\ nClients' = nClients + 1
  /\ proto' = [n \in Methods |-> AfterExecution(proto[n], nClients + 1)]
  /\ UNCHANGED sends
  /\ UNCHANGED notClientVars

\* x.sendTransaction(options) / x.sendRawTransaction(hex) on a constructed
\* client x; `local` tells whether options.from is an Account.
Send(x, name, local) ==
  /\ x <= nClients
  /\ Len(sends) < MaxSends
  /\ name = "sendRawTransaction" => ~local
  /\ sends' = Append(sends, [on |-> x, name |-> name, local |-> local,
                             via |-> Via(name, x, local),
                             pt |-> BoundTo(name),
                             nested |-> Len(proto[name].after)])
  /\ UNCHANGED <<nClients, proto>>
  /\ UNCHANGED notClientVars

ClientNext ==
  \/ NewClient
  \/ \E x \in Clients, name \in Methods, local \in BOOLEAN : Send(x, name, local)

\* =========================================================================
\* Two executed() waits that run concurrently on different hashes
\* =========================================================================
\* Each wait is one call of loop() with a Timer of its own; the two share
\* the clock and the options.  Time advances by Tick: a sleep ends exactly
\* when it is due and a query is answered within MaxQueryTime.
PairReceipts == {r \in Receipts : r.block = 1} \cup {NullReceipt}
Peer(w) == 3 - w

PairInit ==
  /\ wPc = [w \in Waits |-> "idle"]
  /\ wTimer = [w \in Waits |-> [startTime |-> 0, lastTime |-> 0]]
  /\ wAt = [w \in Waits |-> 0]
  /\ wResult = [w \in Waits |-> NoResult]
  /\ wNode \in [Waits -> PairReceipts]
  /\ wObs = [w \in Waits |-> NoWaitObs]
  /\ op = "executed"
  /\ opts \in [delta : 0..MaxDelta, timeout : 0..MaxTimeout, threshold : {NoThreshold}]
  /\ now = 0
  /\ pc = "off"
  /\ outerTimer = [startTime |-> 0, lastTime |-> 0]
  /\ innerTimer = [startTime |-> 0, lastTime |-> 0]
  /\ result = NoResult
  /\ receipt = NullReceipt
  /\ nodeTx = "null"
  /\ nodeReceipt = NullReceipt
  /\ obs = NoObs
  /\ WsOff
  /\ ClientOff
  /\ TxOff
  /\ HexOff
  /\ KsOff
  /\ WalletOff

\* Variant of LoopTimer: one Timer at module level serves every loop.
LoopTimer_Shared(w) == wTimer[1]

\* loop(): const timer = new Timer(), local to the call.
LoopTimer(w) == wTimer[w]

\* The wait settles: its promise is resolved or rejected.
PairSettle(w, kind, rcpt) ==
  /\ wPc' = [wPc EXCEPT ![w] = "done"]
  /\ wResult' = [wResult EXCEPT ![w] = [kind |-> kind, receipt |-> rcpt]]
  /\ wObs' = [wObs EXCEPT ![w] = [doneAt |-> now, peerPc |-> wPc[Peer(w)]]]

\* The caller invokes executed() on the PendingTransaction of hash w.
PairCall(w) ==
  /\ wPc[w] = "idle"
  /\ wPc' = [wPc EXCEPT ![w] = "check"]
  /\ wTimer' = [wTimer EXCEPT ![w] = NewTimer]
  /\ UNCHANGED <<wAt, wResult, wNode, wObs, now, opts>>
  /\ UNCHANGED notPairVars

\* loop(): the deadline check, then func() issues getTransactionReceipt.
PairCheck(w) ==
  /\ wPc[w] = "check"
  /\ IF LoopGuard(LoopTimer(w), opts.timeout)
     THEN /\ wPc' = [wPc EXCEPT ![w] = "query"]
          /\ wAt' = [wAt EXCEPT ![w] = now]
          /\ UNCHANGED <<wResult, wObs>>
     ELSE /\ PairSettle(w, "Timeout", NullReceipt)
          /\ UNCHANGED wAt
  /\ UNCHANGED <<wTimer, wNode, now, opts>>
  /\ UNCHANGED notPairVars

\* The receipt query of wait w settles.
PairReply(w, ok) ==
  /\ wPc[w] = "query"
  /\ IF ~ok
     THEN PairSettle(w, "TransportError", NullReceipt) /\ UNCHANGED wAt
     ELSE CASE ExecutedFunc(wNode[w]) = "throw" ->
                 PairSettle(w, "OutcomeFailure", NullReceipt) /\ UNCHANGED wAt
            [] ExecutedFunc(wNode[w]) = "return" ->
                 PairSettle(w, "receipt", wNode[w]) /\ UNCHANGED wAt
            [] OTHER ->
                 /\ wPc' = [wPc EXCEPT ![w] = "sleep"]
                 /\ wAt' = [wAt EXCEPT ![w] = TimerDelta(LoopTimer(w), opts.delta)]
                 /\ UNCHANGED <<wResult, wObs>>
  /\ UNCHANGED <<wTimer, wNode, now, opts>>
  /\ UNCHANGED notPairVars

\* await timer.delta(delta) of wait w returns.
PairWake(w) ==
  /\ wPc[w] = "sleep"
  /\ now >= wAt[w]
  /\ wTimer' = [wTimer EXCEPT ![w].lastTime = now]
  /\ wPc' = [wPc EXCEPT ![w] = "check"]
  /\ UNCHANGED <<wAt, wResult, wNode, wObs, now, opts>>
  /\ UNCHANGED notPairVars

\* One tick of Date.now(): no continuation is ready to run, no sleep is
\* due and no query is overdue.
Tick ==
  /\ \E w \in Waits : wPc[w] \in {"query", "sleep"}
  /\ \A w \in Waits :
       /\ wPc[w] # "check"
       /\ wPc[w] = "sleep" => now < wAt[w]
       /\ wPc[w] = "query" => now - wAt[w] < MaxQueryTime
  /\ now' = now + 1
  /\ UNCHANGED <<wPc, wTimer, wAt, wResult, wNode, wObs, opts>>
  /\ UNCHANGED notPairVars

\* The ledger moves on for hash w.
PairNodeStep(w) ==
  /\ \E v \in Waits : wPc[v] # "done"
  /\ wNode[w] = NullReceipt
  /\ \E r \in PairReceipts \ {NullReceipt} : wNode' = [wNode EXCEPT ![w] = r]
  /\ UNCHANGED <<wPc, wTimer, wAt, wResult, wObs, now, opts>>
  /\ UNCHANGED notPairVars

PairNext ==
  \/ \E w \in Waits : PairCall(w)
  \/ \E w \in Waits : PairCheck(w)
  \/ \E w \in Waits, ok \in BOOLEAN : PairReply(w, ok)
  \/ \E w \in Waits : PairWake(w)
  \/ Tick
  \/ \E w \in Waits : PairNodeStep(w)

\* =========================================================================
\* Transaction: rawOptions, sign, from, hash, encode
\* =========================================================================
\* Private keys and public keys are small numbers; the address of public key
\* p is 20 bytes p.  Public key 0 belongs to no private key: it stands for
\* the key a signature that does not fit the digest recovers.
PrivateKeys == {1, 2}
AddressLen == 20
Null == <<-2>>

\* Values the caller hands to the constructor or assigns to a field.
HexOpts == {<<>>, <<0>>, <<1>>}
DripOpts == {<<0>>, <<1>>}
ToOpts == {[i \in 1..AddressLen |-> 35]}
SigOpts == {<<5>>}
Options ==
  [nonce : {<<0>>, Undefined}, gasPrice : {<<1>>, Undefined},
   gas : {<<1>>, Undefined}, to : ToOpts \cup {Undefined},
   value : {<<1>>, Undefined}, data : {<<1>>, Undefined},
   r : SigOpts \cup {Undefined}, s : SigOpts \cup {Undefined}, v : SigOpts \cup {Undefined}]

\* Hex(value) of undefined, of null, and of a Buffer or a hex string that is
\* lowercase and of even length already.
Hex(value) ==
  CASE value = Undefined -> Undefined
    [] value = Null -> <<>>
    [] OTHER -> value

\* Drip(value): Hex(BigNumber(value)), of a non-negative integer.
Drip(value) == Hex(value)

\* Hex.toBuffer(value): the single byte 00 becomes the empty buffer.
HexToBuffer(value) ==
  IF value = Undefined THEN <<>>
  ELSE IF Hex(value) = <<0>> THEN <<>> ELSE Hex(value)

\* Number(hex): NaN (-1) for undefined and for "0x".
RECURSIVE BigEndian(_)
BigEndian(b) == IF b = <<>> THEN 0 ELSE BigEndian(SubSeq(b, 1, Len(b) - 1)) * 256 + b[Len(b)]
JsNumber(value) == IF value \in {Undefined, <<>>} THEN -1 ELSE BigEndian(value)

\* rawOptions throws when nonce, gasPrice or gas is undefined.
Accepted(o) == o.nonce # Undefined /\ o.gasPrice # Undefined /\ o.gas # Undefined

\* Transaction.rawOptions(options)
RawOptions(o) ==
  [nonce |-> Hex(o.nonce),
   gasPrice |-> Drip(o.gasPrice),
   gas |-> Hex(o.gas),
   to |-> IF o.to = Undefined THEN Hex(Null) ELSE Hex(o.to),
   value |-> IF o.value = Undefined THEN Drip(<<0>>) ELSE Drip(o.value),
   data |-> IF o.data = Undefined THEN Hex(<<>>) ELSE Hex(o.data),
   r |-> IF o.r = Undefined THEN Hex(Null) ELSE Hex(o.r),
   s |-> IF o.s = Undefined THEN Hex(Null) ELSE Hex(o.s),
   v |-> IF o.v = Undefined THEN Hex(Null) ELSE Hex(o.v)]

\* Variant of RlpItem: a byte string is written without its length prefix.
RlpItem_NoPrefix(b) == b

\* rlp.encode of a byte string and of a list of byte strings.
RlpItem(b) ==
  IF Len(b) = 1 /\ b[1] < 128 THEN b
  ELSE IF Len(b) <= 55 THEN <<128 + Len(b)>> \o b
  ELSE <<184, Len(b)>> \o b

RECURSIVE Concat(_)
Concat(ss) == IF ss = <<>> THEN <<>> ELSE Head(ss) \o Concat(Tail(ss))

RlpEncode(array) ==
  LET payload == Concat([i \in 1..Len(array) |-> RlpItem(array[i])])
  IN IF Len(payload) <= 55 THEN <<192 + Len(payload)>> \o payload
     ELSE <<248, Len(payload)>> \o payload

\* keccak256: a digest that stands for exactly one message.
Sha3(buffer) == [keccak |-> buffer]

\* Variant of Encode: the data field is left out of the list.
Encode_NoData(t, includeSignature) ==
  LET raw == <<t.nonce, t.gasPrice, t.gas, t.to, t.value>>
             \o (IF includeSignature THEN <<t.v, t.r, t.s>> ELSE <<>>)
  IN RlpEncode([i \in 1..Len(raw) |-> HexToBuffer(raw[i])])

\* Transaction.encode(includeSignature)
Encode(t, includeSignature) ==
  LET raw == <<t.nonce, t.gasPrice, t.gas, t.to, t.value, t.data>>
             \o (IF includeSignature THEN <<t.v, t.r, t.s>> ELSE <<>>)
  IN RlpEncode([i \in 1..Len(raw) |-> HexToBuffer(raw[i])])

\* Transaction.hash()
Hash(t) == Sha3(Encode(t, FALSE))

\* ecdsaSign(hash, privateKey): r commits to the digest, s to the key, v is
\* the recovery id.
EcdsaSign(h, k) == [r |-> h.keccak, s |-> <<k>>, v |-> k % 2]

\* ecdsaRecover(hash, {r, s, v}): throws when a part of the signature is
\* missing or v is no recovery id; recovers the signer's public key when the
\* signature was made over this digest, and another public key otherwise.
EcdsaRecover(h, sig) ==
  IF sig.r = <<>> \/ sig.s = <<>> \/ sig.v \notin {0, 1}
  THEN [threw |-> TRUE, pub |-> 0]
  ELSE IF sig.r = h.keccak /\ Len(sig.s) = 1 /\ sig.v = sig.s[1] % 2 /\ sig.s[1] \in PrivateKeys
       THEN [threw |-> FALSE, pub |-> sig.s[1]]
       ELSE [threw |-> FALSE, pub |-> 0]

PublicKeyToAddress(pub) == [i \in 1..AddressLen |-> pub]
PrivateKeyToAddress(k) == PublicKeyToAddress(k)

\* Variant of From: the getter has no try / catch, the error escapes.
From_NoCatch(t) ==
  LET rec == EcdsaRecover(Hash(t), [r |-> HexToBuffer(t.r), s |-> HexToBuffer(t.s),
                                    v |-> JsNumber(t.v)])
  IN IF rec.threw THEN <<-3>> ELSE Hex(PublicKeyToAddress(rec.pub))

\* get from(): the recovered sender, undefined when recovery throws.
From(t) ==
  LET rec == EcdsaRecover(Hash(t), [r |-> HexToBuffer(t.r), s |-> HexToBuffer(t.s),
                                    v |-> JsNumber(t.v)])
  IN IF rec.threw THEN Undefined ELSE Hex(PublicKeyToAddress(rec.pub))

\* Variant of Sign: signing also stores the recovery id in the nonce.
Sign_TouchesNonce(t, k) ==
  LET sig == EcdsaSign(Hash(t), k)
  IN [t EXCEPT !.r = Hex(sig.r), !.s = Hex(sig.s), !.v = Hex(<<sig.v>>),
               !.nonce = Hex(<<sig.v + 2>>)]

\* sign(privateKey)
Sign(t, k) ==
  LET sig == EcdsaSign(Hash(t), k)
  IN [t EXCEPT !.r = Hex(sig.r), !.s = Hex(sig.s), !.v = Hex(<<sig.v>>)]

\* The canonical values a field takes when it is assigned directly.
FieldVals(f) ==
  CASE f \in {"gasPrice", "value"} -> DripOpts
    [] f = "to" -> ToOpts \cup {<<>>}
    [] OTHER -> HexOpts

Changed(t, u) == {f \in SixFields : t[f] # u[f]}

\* new Transaction(options), for options the constructor accepts
TxInit ==
  /\ txn \in {RawOptions(o) : o \in {x \in Options : Accepted(x)}}
  /\ signer = 0
  /\ signedTx = txn
  /\ edits = 0
  /\ PollOff
  /\ WsOff
  /\ ClientOff
  /\ PairOff
  /\ HexOff
  /\ KsOff
  /\ WalletOff

\* tx.sign(k)
TxSign(k) ==
  /\ txn' = Sign(txn, k)
  /\ signer' = k
  /\ signedTx' = txn'
  /\ UNCHANGED edits
  /\ UNCHANGED notTxVars

\* tx[f] = val, for one of the six signed-over fields
TxAssign(f, val) ==
  /\ edits < MaxEdits
  /\ val # txn[f]
  /\ txn' = [txn EXCEPT ![f] = val]
  /\ edits' = edits + 1
  /\ UNCHANGED <<signer, signedTx>>
  /\ UNCHANGED notTxVars

\* tx[f] = undefined or tx[f] = Hex(null), for a field of the signature
TxClear(f, val) ==
  /\ edits < MaxEdits
  /\ txn[f] \notin {Undefined, <<>>}
  /\ txn' = [txn EXCEPT ![f] = val]
  /\ edits' = edits + 1
  /\ UNCHANGED <<signer, signedTx>>
  /\ UNCHANGED notTxVars

TxNext ==
  \/ \E k \in PrivateKeys : TxSign(k)
  \/ \E f \in SixFields : \E val \in FieldVals(f) : TxAssign(f, val)
  \/ \E f \in SigFields, val \in {Undefined, <<>>} : TxClear(f, val)

\* =========================================================================
\* Hex(number) and Hex.toBuffer
\* =========================================================================
\* number.toString(16): the hexadecimal digits of n, most significant first.
RECURSIVE ToString16(_)
ToString16(n) == IF n < 16 THEN <<n>> ELSE ToString16(n \div 16) \o <<n % 16>>

\* The bytes a string of hexadecimal digits spells, two digits a byte; a
\* last digit without a partner is dropped, as Buffer.from(s, 'hex') does.
Pairs(digits) == [i \in 1..(Len(digits) \div 2) |-> digits[2 * i - 1] * 16 + digits[2 * i]]

\* Variant of HexOfNumber: the digits are not padded to an even number.
HexOfNumber_NoPad(n) == Pairs(ToString16(n))

\* Hex(n) of a number: Hex(n.toString(16)), which puts "0x" in front and one
\* more "0" when the number of digits is odd.
HexOfNumber(n) ==
  LET string == ToString16(n)
  IN Pairs(IF Len(string) % 2 = 1 THEN <<0>> \o string ELSE string)

HexInit ==
  /\ num \in 0..MaxNumber
  /\ hexOf = Undefined
  /\ bufOf = Undefined
  /\ PollOff
  /\ WsOff
  /\ ClientOff
  /\ PairOff
  /\ TxOff
  /\ KsOff
  /\ WalletOff

\* hexOf = Hex(num)
HexCall ==
  /\ hexOf = Undefined
  /\ hexOf' = HexOfNumber(num)
  /\ UNCHANGED <<num, bufOf>>
  /\ UNCHANGED notHexVars

\* bufOf = Hex.toBuffer(hexOf)
ToBufferCall ==
  /\ hexOf # Undefined
  /\ bufOf = Undefined
  /\ bufOf' = HexToBuffer(hexOf)
  /\ UNCHANGED <<num, hexOf>>
  /\ UNCHANGED notHexVars

HexNext ==
  \/ HexCall
  \/ ToBufferCall

\* =========================================================================
\* Keystore: PrivateKey.encrypt and PrivateKey.decrypt
\* =========================================================================
\* A byte of the keystore is a known value xor-ed with a set of keystream
\* bytes: xor-ing the same keystream byte twice leaves the value.
KeyLen == 32
SaltLen == 32
IvLen == 16
CRYPT_VERSION == "3.5"
Passwords == {"a", "b"}
Plain(b) == [plain |-> b, pads |-> {}]
Bytes(len, b) == [i \in 1..len |-> b]
KsKeys == {Bytes(KeyLen, Plain(b)) : b \in {0, 1, 255}}
Salts == {Bytes(SaltLen, 0), Bytes(SaltLen, 7)}
Ivs == {Bytes(IvLen, 0), Bytes(IvLen, 9)}
KsFields == {"version", "salt", "iv", "cipher", "mac"}

\* The bytes of a digest, written as the message they stand for.
Sha3Bytes(buffer) == Sha3(buffer).keccak

Xor(b, pad) == [b EXCEPT !.pads = (@ \ {pad}) \cup ({pad} \ @)]

\* scrypt32(key, salt): 32 bytes that stand for exactly this password and salt.
Scrypt32(key, salt) == [i \in 1..32 |-> [scrypt |-> <<key, salt>>, at |-> i]]

\* cipheriv(key, iv, buffer): aes-128-ctr, the buffer xor the keystream of
\* key and iv.
Cipheriv(key, iv, buffer) ==
  [i \in 1..Len(buffer) |-> Xor(buffer[i], [key |-> key, iv |-> iv, at |-> i])]

\* Variant of Decipheriv: the keystream is taken from the key alone.
Decipheriv_NoIv(key, iv, buffer) ==
  [i \in 1..Len(buffer) |-> Xor(buffer[i], [key |-> key, iv |-> <<>>, at |-> i])]

\* decipheriv(key, iv, buffer): the same xor.
Decipheriv(key, iv, buffer) ==
  [i \in 1..Len(buffer) |-> Xor(buffer[i], [key |-> key, iv |-> iv, at |-> i])]

\* PrivateKey.encrypt(privateKey, password) with the salt and the iv that
\* randomBuffer returned.
EncryptFunc(privateKey, password, saltBuffer, ivBuffer) ==
  LET keyBuffer == HexToBuffer(privateKey)
      derivedBuffer == Scrypt32(password, saltBuffer)
      cipherBuffer == Cipheriv(SubSeq(derivedBuffer, 1, 16), ivBuffer, keyBuffer)
      macBuffer == Sha3Bytes(SubSeq(derivedBuffer, 17, 32) \o cipherBuffer)
  IN [version |-> CRYPT_VERSION, salt |-> Hex(saltBuffer), iv |-> Hex(ivBuffer),
      cipher |-> Hex(cipherBuffer), mac |-> Hex(macBuffer)]

\* Variant of DecryptFunc: the key is deciphered first and the MAC is
\* compared afterwards.
DecryptFunc_CheckLast(rec, password) ==
  IF rec.version # CRYPT_VERSION
  THEN [kind |-> "version", password |-> password, key |-> Undefined, deciphered |-> FALSE]
  ELSE LET derivedBuffer == Scrypt32(password, HexToBuffer(rec.salt))
           cipherBuffer == HexToBuffer(rec.cipher)
           macBuffer == Sha3Bytes(SubSeq(derivedBuffer, 17, 32) \o cipherBuffer)
       IN IF Hex(macBuffer) # rec.mac
          THEN [kind |-> "auth", password |-> password, key |-> Undefined, deciphered |-> TRUE]
          ELSE [kind |-> "ok", password |-> password, deciphered |-> TRUE,
                key |-> Hex(Decipheriv(SubSeq(derivedBuffer, 1, 16), HexToBuffer(rec.iv), cipherBuffer))]

\* PrivateKey.decrypt({version, salt, iv, cipher, mac}, password)
DecryptFunc(rec, password) ==
  IF rec.version # CRYPT_VERSION
  THEN [kind |-> "version", password |-> password, key |-> Undefined, deciphered |-> FALSE]
  ELSE LET saltBuffer == HexToBuffer(rec.salt)
           ivBuffer == HexToBuffer(rec.iv)
           derivedBuffer == Scrypt32(password, saltBuffer)
           cipherBuffer == HexToBuffer(rec.cipher)
           macBuffer == Sha3Bytes(SubSeq(derivedBuffer, 17, 32) \o cipherBuffer)
       IN IF Hex(macBuffer) # rec.mac
          THEN [kind |-> "auth", password |-> password, key |-> Undefined, deciphered |-> FALSE]
          ELSE [kind |-> "ok", password |-> password, deciphered |-> TRUE,
                key |-> Hex(Decipheriv(SubSeq(derivedBuffer, 1, 16), ivBuffer, cipherBuffer))]

\* The record with one field replaced by another value of its kind.
Altered(rec, f) ==
  CASE f = "version" -> [rec EXCEPT !.version = "3.0"]
    [] f = "salt" -> [rec EXCEPT !.salt = Bytes(SaltLen, 255)]
    [] f = "iv" -> [rec EXCEPT !.iv = Bytes(IvLen, 255)]
    [] f = "cipher" -> [rec EXCEPT !.cipher[1] = Xor(@, [key |-> <<>>, iv |-> <<>>, at |-> 0])]
    [] f = "mac" -> [rec EXCEPT !.mac = Sha3Bytes(<<>>)]

KsInit ==
  /\ ksKey \in KsKeys
  /\ ksPassword \in Passwords
  /\ ksRecord = NoRecord
  /\ ksTampered = {}
  /\ ksResult = NoKsResult
  /\ PollOff
  /\ WsOff
  /\ ClientOff
  /\ PairOff
  /\ TxOff
  /\ HexOff
  /\ WalletOff

\* ksRecord = PrivateKey.encrypt(ksKey, ksPassword)
Encrypt(saltBuffer, ivBuffer) ==
  /\ ksRecord = NoRecord
  /\ ksRecord' = EncryptFunc(ksKey, ksPassword, saltBuffer, ivBuffer)
  /\ UNCHANGED <<ksKey, ksPassword, ksTampered, ksResult>>
  /\ UNCHANGED notKsVars

\* The stored record is altered before it is decrypted.
Tamper(f) ==
  /\ ksRecord # NoRecord
  /\ ksResult = NoKsResult
  /\ f \notin ksTampered
  /\ ksRecord' = Altered(ksRecord, f)
  /\ ksTampered' = ksTampered \cup {f}
  /\ UNCHANGED <<ksKey, ksPassword, ksResult>>
  /\ UNCHANGED notKsVars

\* PrivateKey.decrypt(ksRecord, password)
Decrypt(password) ==
  /\ ksRecord # NoRecord
  /\ ksResult = NoKsResult
  /\ ksResult' = DecryptFunc(ksRecord, password)
  /\ UNCHANGED <<ksKey, ksPassword, ksRecord, ksTampered>>
  /\ UNCHANGED notKsVars

KsNext ==
  \/ \E saltBuffer \in Salts, ivBuffer \in Ivs : Encrypt(saltBuffer, ivBuffer)
  \/ \E f \in KsFields : Tamper(f)
  \/ \E password \in Passwords : Decrypt(password)

\* =========================================================================
\* Wallet: add, create, remove, clear
\* =========================================================================
\* The private keys handed to the wallet, as canonical hex of 32 bytes.
WalletKeys == {Bytes(32, k) : k \in 1..3}

\* new Account(privateKey): the id tells one Account object from another.
NewAccount(privateKey, id) ==
  [id |-> id,
   privateKey |-> Hex(privateKey),
   address |-> Hex(PrivateKeyToAddress(HexToBuffer(Hex(privateKey))[1]))]

\* The keys the wallet may be asked for: private keys and addresses.
WalletArgs == WalletKeys \cup {NewAccount(k, 0).address : k \in WalletKeys}

\* Map.get: NoAccount stands for undefined.
MapGet(m, key) == IF key \in DOMAIN m THEN m[key] ELSE NoAccount
MapSet(m, key, val) == [x \in DOMAIN m \cup {key} |-> IF x = key THEN val ELSE m[x]]
MapDelete(m, key) == [x \in DOMAIN m \ {key} |-> m[x]]

\* get size()
Size(m) == Cardinality(DOMAIN m) \div 2

\* Wallet.add(privateKey): the map afterwards and the account returned.
AddFunc(m, privateKey, id) ==
  LET found == MapGet(m, Hex(privateKey))
      account == NewAccount(privateKey, id)
  IN IF found # NoAccount
     THEN [map |-> m, ret |-> found]
     ELSE [map |-> MapSet(MapSet(m, account.address, account), account.privateKey, account),
           ret |-> account]

\* Variant of RemoveFunc: only the entry of the key given is deleted.
RemoveFunc_GivenKeyOnly(m, key) ==
  LET account == MapGet(m, key)
  IN [map |-> IF account # NoAccount THEN MapDelete(m, key) ELSE m, ret |-> account]

\* Wallet.remove(privateKeyOrAddress)
RemoveFunc(m, key) ==
  LET account == MapGet(m, key)
  IN [map |-> IF account # NoAccount
              THEN MapDelete(MapDelete(m, account.address), account.privateKey)
              ELSE m,
      ret |-> account]

WalletInit ==
  /\ accountMap = [key \in {} |-> NoAccount]
  /\ created = 0
  /\ walletLast = NoWalletCall
  /\ PollOff
  /\ WsOff
  /\ ClientOff
  /\ PairOff
  /\ TxOff
  /\ HexOff
  /\ KsOff

\* wallet.add(privateKey)
WalletAdd(privateKey) ==
  /\ created < MaxAccounts
  /\ LET r == AddFunc(accountMap, privateKey, created + 1)
     IN /\ accountMap' = r.map
        /\ created' = IF r.ret.id = created + 1 THEN created + 1 ELSE created
        /\ walletLast' = [op |-> "add", arg |-> privateKey, ret |-> r.ret]
  /\ UNCHANGED notWalletVars

\* wallet.create(entropy): add() of the key randomPrivateKey returned
WalletCreate(privateKey) ==
  /\ created < MaxAccounts
  /\ LET r == AddFunc(accountMap, privateKey, created + 1)
     IN /\ accountMap' = r.map
        /\ created' = IF r.ret.id = created + 1 THEN created + 1 ELSE created
        /\ walletLast' = [op |-> "create", arg |-> privateKey, ret |-> r.ret]
  /\ UNCHANGED notWalletVars

\* wallet.remove(privateKeyOrAddress)
WalletRemove(key) ==
  /\ LET r == RemoveFunc(accountMap, key)
     IN /\ accountMap' = r.map
        /\ walletLast' = [op |-> "remove", arg |-> key, ret |-> r.ret]
  /\ UNCHANGED created
  /\ UNCHANGED notWalletVars

\* wallet.clear()
WalletClear ==
  /\ accountMap' = [key \in {} |-> NoAccount]
  /\ walletLast' = [op |-> "clear", arg |-> <<>>, ret |-> NoAccount]
  /\ UNCHANGED created
  /\ UNCHANGED notWalletVars

WalletNext ==
  \/ \E privateKey \in WalletKeys : WalletAdd(privateKey)
  \/ \E privateKey \in WalletKeys : WalletCreate(privateKey)
  \/ \E key \in WalletArgs : WalletRemove(key)
  \/ WalletClear

\* =========================================================================
\* Specifications
\* =========================================================================
SpecPoll == PollInit /\ [][PollNext]_vars
SpecWs == WsInit /\ [][WsNext]_vars
SpecClient == ClientInit /\ [][ClientNext]_vars
SpecPair == PairInit /\ [][PairNext]_vars
SpecTx == TxInit /\ [][TxNext]_vars
SpecHex == HexInit /\ [][HexNext]_vars
SpecKs == KsInit /\ [][KsNext]_vars
SpecWallet == WalletInit /\ [][WalletNext]_vars

\* =========================================================================
\* Properties
\* =========================================================================
InnerLoop == {"i_check", "i_query", "i_sleep"}

\* C1: executed() never returns a receipt whose outcomeStatus is not 0.  In
\* every polling run the first non-null receipt observed is either returned
\* (status 0) or makes the wait fail at once (any other status), and the run
\* issues no receipt query after it.
C1_ExecutedNeverReturnsFailure ==
  /\ result.kind \in {"receipt", "address"} => result.receipt.status = 0
  /\ ~obs.queryAfterObs
  /\ obs.runObs # NullReceipt /\ obs.runObs.status # 0
       => pc = "done" /\ result.kind = "OutcomeFailure"
  /\ obs.runObs # NullReceipt /\ obs.runObs.status = 0
       => pc \notin InnerLoop /\ obs.execRet = obs.runObs

C1_Witness ==
  /\ op = "executed"
  /\ pc = "done"
  /\ result.kind = "OutcomeFailure"
  /\ obs.runObs.status = 1
  /\ now > 0

\* C2: confirmed() never reports Confirmed before Executed.  A receipt
\* returned by confirmed() is the one an executed() wait returned earlier in
\* the same iteration, and the risk is queried only after that wait returned.
C2_ConfirmedAfterExecuted ==
  /\ op = "confirmed" /\ result.kind = "receipt"
       => obs.iterRet # NullReceipt /\ result.receipt = obs.iterRet
  /\ obs.riskQueried => obs.iterRet # NullReceipt
  /\ pc = "o_risk" => obs.iterRet # NullReceipt /\ receipt = obs.iterRet

C2_Witness ==
  /\ op = "confirmed"
  /\ pc = "done"
  /\ result.kind = "receipt"
  /\ obs.riskQueried

\* C3: executed(), confirmed() and deployed() do not return until a
\* getTransactionByHash observation made by the wait has reported a non-null
\* block hash (the Mined condition).
C3_ExecutedAfterMined ==
  result.kind \in {"receipt", "address"} => obs.minedSeen

\* C4: the deadline check precedes every observation.  loop() never starts
\* func once the elapsed time is >= timeout; with timeout 0 the wait fails
\* with a Timeout error and issues no query at all.
C4_DeadlinePrecedesObservation ==
  /\ ~obs.lateInvoke
  /\ opts.timeout = 0 /\ pc # "off" => ~obs.anyQuery /\ pc \in {"idle", "o_check", "i_check", "done"}
  /\ opts.timeout = 0 /\ pc = "done" => result.kind = "Timeout"

C4_Witness ==
  /\ op = "confirmed"
  /\ opts.timeout = 0
  /\ opts.threshold = DefaultThreshold
  /\ nodeReceipt # NullReceipt
  /\ nodeReceipt.status = 0
  /\ pc = "done"
  /\ result.kind = "Timeout"

\* C5: the persistent transport has at most one live connection at any
\* time, also when calls are issued concurrently while it is disconnected.
C5_AtMostOneLiveConnection ==
  Cardinality({c \in Calls : conns[c] = "OPEN"}) <= 1

\* C6: a call settled by a response is settled by the response that carries
\* its own id, whatever the order the responses arrive in.
C6_OwnResponse ==
  \A k \in Calls : outcome[k].kind \in {"result", "error"} => outcome[k].of = k

C6_Witness ==
  /\ callWs[1] = callWs[2]
  /\ hist.log = <<Ev("settle", 2), Ev("settle", 1)>>
  /\ 1 \in hist.beside
  /\ outcome[1].kind = "result"
  /\ outcome[2].kind = "result"

\* C7: the outcome first delivered to a caller is never replaced: a settled
\* call keeps its outcome whatever arrives later (a late or duplicate
\* response, the timer, close()).
C7_SettledOnce ==
  [][\A k \in Calls : outcome[k].kind # "pending" => outcome'[k] = outcome[k]]_vars

C7_Witness ==
  \E k \in Calls :
    /\ timer[k] = "fired"
    /\ outcome[k].kind = "timeout"
    /\ k \in hist.delivered

\* C8: a request is sent only on a socket that has reached the open state;
\* a call issued while disconnected opens a socket and waits for it first.
C8_ConnectThenSend ==
  /\ hist.sentOn \subseteq hist.opened
  /\ \A r \in sent : r.conn \in hist.opened
  /\ \A k \in Calls : callPc[k] \in {"ready", "waiting"} => callWs[k] \in hist.opened

C8_Witness ==
  \E k \in Calls :
    /\ callPc[k] = "waiting"
    /\ callWs[k] = k
    /\ [conn |-> k, id |-> k] \in sent

\* C9: when a request's timer expires before its response, the call fails
\* with a timeout error; the expiry changes neither the connection nor any
\* other request's waiter and timer.
C9_TimerExpiryFrame ==
  [][\A k \in Calls :
       timer[k] = "armed" /\ timer'[k] = "fired"
         => /\ outcome'[k].kind = "timeout"
            /\ conns' = conns
            /\ thisWs' = thisWs
            /\ listeners' = listeners
            /\ sent' = sent
            /\ \A j \in Calls \ {k} : timer'[j] = timer[j] /\ outcome'[j] = outcome[j]]_vars

C9_Witness ==
  /\ timer[1] = "fired"
  /\ outcome[1].kind = "timeout"
  /\ callWs[1] = callWs[2]
  /\ conns[callWs[1]] = "OPEN"
  /\ callPc[2] = "waiting"
  /\ timer[2] = "armed"
  /\ outcome[2].kind = "pending"
  /\ 2 \in listeners

\* C10: a transport error (an error response, a timeout) settles only the
\* call it belongs to; the other requests in flight stay as they are and
\* can still settle with their own response.
C10_ErrorIsolated ==
  [][\A k \in Calls :
       outcome[k].kind = "pending" /\ outcome'[k].kind \in {"error", "timeout"}
         => \A j \in Calls \ {k} :
              /\ outcome'[j] = outcome[j]
              /\ timer'[j] = timer[j]
              /\ (j \in listeners') = (j \in listeners)]_vars

C10_Witness ==
  /\ callWs[1] = callWs[2]
  /\ hist.log = <<Ev("settle", 1), Ev("settle", 2)>>
  /\ 2 \in hist.beside
  /\ outcome[1].kind = "error"
  /\ outcome[2] = [kind |-> "result", of |-> 2]

\* C11: close() on a transport that has a connection terminates that
\* connection and removes every waiter, and settles none of the requests in
\* flight; close() on a transport that never connected changes nothing.
C11_CloseFrame ==
  [][hist'.last = Ev("close", 0)
       => /\ outcome' = outcome
          /\ callPc' = callPc
          /\ thisWs' = thisWs
          /\ sent' = sent
          /\ IF thisWs # 0
             THEN /\ conns' = [conns EXCEPT ![thisWs] = "CLOSED"]
                  /\ listeners' = {}
             ELSE /\ conns' = conns
                  /\ listeners' = listeners]_vars

C11_Witness ==
  /\ hist.last = Ev("close", 0)
  /\ thisWs # 0
  /\ conns[thisWs] = "CLOSED"
  /\ listeners = {}
  /\ \E k \in Calls :
       /\ callPc[k] = "waiting"
       /\ callWs[k] = thisWs
       /\ k \notin hist.delivered
       /\ outcome[k].kind = "pending"

\* A request whose listener was removed without a message having been handed
\* to it: it was in flight when close() ran.
ClosedInFlight(k) ==
  /\ callPc[k] = "waiting"
  /\ k \notin listeners
  /\ k \notin hist.delivered

\* C12 as claimed: a request in flight when close() is called hangs, it is
\* never resolved and never rejected afterwards.
C12_HangsAfterClose ==
  [][\A k \in Calls :
       ClosedInFlight(k) /\ outcome[k].kind = "pending" => outcome'[k].kind = "pending"]_vars

\* C12 as amended: a request in flight when close() is called is never
\* settled by a response; close() leaves its timer armed, and the request is
\* rejected with the timeout error when that timer expires.
C12_ClosedRequestTimesOut ==
  \A k \in Calls :
    ClosedInFlight(k)
      => \/ outcome[k].kind = "pending" /\ timer[k] = "armed"
         \/ outcome[k].kind = "timeout" /\ timer[k] = "fired"

C12_Witness ==
  /\ hist.last = Ev("close", 0)
  /\ \E k \in Calls :
       /\ ClosedInFlight(k)
       /\ [conn |-> callWs[k], id |-> k] \in sent
       /\ outcome[k].kind = "pending"
       /\ timer[k] = "armed"

C15_RiskBelowThreshold ==
  /\ op \in {"confirmed", "deployed"} /\ result.kind \in {"receipt", "address"}
       => /\ obs.riskQueried
          /\ obs.riskOf = result.receipt.block
          /\ getRiskCoefficient(obs.riskOf) < Threshold(opts)
  /\ obs.riskQueried /\ getRiskCoefficient(obs.riskOf) >= Threshold(opts)
       => /\ pc \in {"o_sleep", "o_check", "done"}
          /\ pc = "done" => result.kind = "Timeout"

C15_Witness ==
  /\ op = "confirmed"
  /\ opts.threshold = NoThreshold
  /\ pc = "done"
  /\ result.kind = "receipt"
  /\ obs.riskOf = result.receipt.block

\* Gap between the starts of two consecutive observations of one loop.
GapOk(g) ==
  g.prevStart >= 0
    => /\ g.start - g.prevStart = Max(opts.delta, g.prevEnd - g.prevStart)
       /\ g.prevEnd - g.prevStart >= opts.delta => g.start = g.prevEnd
       /\ g.prevEnd - g.prevStart < opts.delta => g.start = g.prevStart + opts.delta

\* C17: in loop() the next observation starts at once when the earlier one
\* took longer than delta, and delta after the start of the earlier one when
\* it took less: the gap between two consecutive starts is
\* max(delta, duration of the earlier observation).
C17_GapIsMaxOfDeltaAndDuration ==
  /\ GapOk(obs.iGap)
  /\ GapOk(obs.oGap)

C17_Witness ==
  /\ obs.iGap.prevStart >= 0
  /\ opts.delta = 1
  /\ obs.iGap.prevEnd - obs.iGap.prevStart = 2
  /\ obs.iGap.start = obs.iGap.prevEnd

\* C14: Client objects share no state: sendTransaction and sendRawTransaction
\* invoked on a client send through that client's own provider exactly once
\* and return a PendingTransaction bound to that same client, however many
\* other clients were constructed.
C14_OwnProviderOwnClient ==
  \A i \in 1..Len(sends) :
    /\ sends[i].via = <<sends[i].on>>
    /\ sends[i].pt = sends[i].on

\* C16: two waits on different hashes that run concurrently are independent.
\* A step that settles one wait (a failure included) leaves the other wait
\* where it is; a wait returns the receipt the node holds for its own hash
\* and fails only on its own receipt or its own deadline; its queries and
\* wake-ups follow its own Timer.
C16_IndependentWaits ==
  [][\A w \in Waits :
       /\ wResult'[w] # wResult[w]
            => /\ wPc'[Peer(w)] = wPc[Peer(w)]
               /\ wTimer'[Peer(w)] = wTimer[Peer(w)]
               /\ wAt'[Peer(w)] = wAt[Peer(w)]
               /\ wResult'[Peer(w)] = wResult[Peer(w)]
               /\ wResult'[w].kind = "receipt"
                    => wResult'[w].receipt = wNode[w] /\ wNode[w].status = 0
               /\ wResult'[w].kind = "OutcomeFailure"
                    => wNode[w] # NullReceipt /\ wNode[w].status # 0
               /\ wResult'[w].kind = "Timeout"
                    => now - wTimer[w].startTime >= opts.timeout
       /\ wPc[w] = "check" /\ wPc'[w] = "query"
            => now - wTimer[w].startTime < opts.timeout
       /\ wPc[w] = "sleep" /\ wPc'[w] = "check"
            => now = wAt[w] /\ now >= wTimer[w].lastTime + opts.delta]_vars

C16_Witness ==
  /\ wResult[1].kind = "OutcomeFailure"
  /\ wObs[1].peerPc = "sleep"
  /\ wResult[2].kind = "receipt"
  /\ wObs[2].doneAt > wObs[1].doneAt
  /\ wObs[2].peerPc = "done"

Absent(x) == x \in {Undefined, <<>>}

\* C18: in every state a Transaction reaches by construction from accepted
\* options and by sign() calls, r, s and v are all absent or all present,
\* and nonce, gasPrice, gas, to, value and data are all present.
C18_SignatureAllOrNone ==
  txn = signedTx
    => /\ \/ \A f \in SigFields : Absent(txn[f])
          \/ \A f \in SigFields : ~Absent(txn[f])
       /\ \A f \in SixFields : txn[f] # Undefined

\* C19: after sign(k) the recovered sender is the address of k; when r, s or
\* v is cleared after signing, the sender is undefined and from raises no
\* error.
C19_SenderIsSigner ==
  /\ signer # 0 /\ txn = signedTx => From(txn) = Hex(PrivateKeyToAddress(signer))
  /\ signer # 0 /\ (\E f \in SigFields : Absent(txn[f])) => From(txn) = Undefined

C19_Witness ==
  /\ signer = 2
  /\ Absent(txn.v)
  /\ txn.r = signedTx.r
  /\ txn.s = signedTx.s
  /\ Changed(txn, signedTx) = {}
  /\ From(signedTx) = Hex(PrivateKeyToAddress(2))

\* The signature is the one sign() set.
SigKept == \A f \in SigFields : txn[f] = signedTx[f]

\* C20 as claimed: after signing, changing one of the six fields to a
\* different canonical hex value without signing again makes from differ
\* from the signer's address.
C20_AnyChangeInvalidates ==
  signer # 0 /\ SigKept /\ Cardinality(Changed(txn, signedTx)) = 1
    => From(txn) # Hex(PrivateKeyToAddress(signer))

\* C20 as amended: the sender is invalidated when the changed field encodes
\* to different bytes, that is for every pair of different canonical values
\* but "0x" and "0x00", which Hex.toBuffer both turns into the empty buffer.
C20_ChangeOfBytesInvalidates ==
  signer # 0 /\ SigKept
    /\ (\E f \in SixFields : HexToBuffer(txn[f]) # HexToBuffer(signedTx[f]))
    => From(txn) # Hex(PrivateKeyToAddress(signer))

C20_Witness ==
  /\ signer # 0
  /\ SigKept
  /\ Changed(txn, signedTx) = {"value"}
  /\ signedTx.value = <<0>>
  /\ txn.value = <<1>>
  /\ From(txn) # Hex(PrivateKeyToAddress(signer))
  /\ From(txn) # Undefined

C22_HexRoundTrip ==
  /\ bufOf # Undefined => BigEndian(bufOf) = num
  /\ bufOf # Undefined /\ num = 0 => hexOf = <<0>> /\ bufOf = <<>>
  /\ HexToBuffer(<<0>>) = HexToBuffer(<<>>)

C22_Witness ==
  /\ num = 256
  /\ hexOf = <<1, 0>>
  /\ bufOf = <<1, 0>>

\* C23: decrypting the record that encrypt made of key k and password p,
\* with the same password and the record as encrypt returned it, returns k
\* as canonical hex, whatever salt and iv encrypt drew.
C23_KeystoreRoundTrip ==
  ksResult # NoKsResult /\ ksTampered = {} /\ ksResult.password = ksPassword
    => ksResult.kind = "ok" /\ ksResult.key = Hex(ksKey)

C23_Witness ==
  /\ ksResult.kind = "ok"
  /\ ksTampered = {}
  /\ ksResult.password = ksPassword
  /\ ksKey = Bytes(KeyLen, Plain(255))
  /\ ksRecord.salt = Bytes(SaltLen, 0)
  /\ ksRecord.cipher # ksKey
  /\ ksResult.key = ksKey

\* C24: decrypt fails with the version error when the record's version is
\* not CRYPT_VERSION, and otherwise with the authentication error when the
\* password is not the one of encrypt or the salt, the cipher text or the
\* mac was altered; when it fails the decipher step has not run and no key
\* is returned.
C24_RejectsBeforeDecrypting ==
  ksResult # NoKsResult =>
    /\ ksRecord.version # CRYPT_VERSION => ksResult.kind = "version"
    /\ /\ ksRecord.version = CRYPT_VERSION
       /\ \/ ksResult.password # ksPassword
          \/ ksTampered \cap {"salt", "cipher", "mac"} # {}
       => ksResult.kind = "auth"
    /\ ksResult.kind \in {"version", "auth"}
         => ~ksResult.deciphered /\ ksResult.key = Undefined

C24_Witness ==
  /\ ksResult.kind = "auth"
  /\ ksTampered = {"cipher"}
  /\ ksResult.password = ksPassword
  /\ ~ksResult.deciphered

\* Every account of the map is stored under its address and under its
\* private key and under no other key, and size is the number of accounts.
TwoKeysEach(m) ==
  /\ \A key \in DOMAIN m :
       /\ key \in {m[key].address, m[key].privateKey}
       /\ m[key].address # m[key].privateKey
       /\ MapGet(m, m[key].address) = m[key]
       /\ MapGet(m, m[key].privateKey) = m[key]
  /\ Cardinality(DOMAIN m) = 2 * Cardinality({m[key] : key \in DOMAIN m})
  /\ Size(m) = Cardinality({m[key] : key \in DOMAIN m})

\* C25: after every add, create, remove and clear each account of the
\* wallet is stored under exactly two keys, its address and its private key,
\* both holding the same Account object, and size is the number of distinct
\* accounts; add of a key already present returns the existing account and
\* changes nothing; remove by either key deletes both entries.
C25_WalletTwoKeysPerAccount ==
  [][/\ TwoKeysEach(accountMap')
     /\ walletLast'.op = "add" /\ walletLast'.arg \in DOMAIN accountMap
          => accountMap' = accountMap /\ walletLast'.ret = accountMap[walletLast'.arg]
     /\ walletLast'.op = "remove" /\ walletLast'.arg \in DOMAIN accountMap
          => /\ walletLast'.ret = accountMap[walletLast'.arg]
             /\ DOMAIN accountMap' =
                  DOMAIN accountMap \ {walletLast'.ret.address, walletLast'.ret.privateKey}]_vars

C25_Witness ==
  /\ walletLast.op = "remove"
  /\ walletLast.arg = walletLast.ret.address
  /\ walletLast.ret.id = 3
  /\ Size(accountMap) = 1
  /\ created = MaxAccounts

\* C26: a confirmed() wait has returned or failed once timeout plus one
\* polling interval plus the duration of one query has passed since it was
\* called, whatever the node answers; the executed() waits inside it do not
\* move the deadline.
C26_ConfirmedWithinTimeout ==
  op = "confirmed" /\ pc \notin {"idle", "done"}
    => now - outerTimer.startTime <= opts.timeout + opts.delta + MaxQueryTime

\* C27: no listener stays registered for a request that has settled, by
\* its response or by its timer, so there are never more registered
\* waiters than unsettled requests.
C27_NoSettledWaiter ==
  /\ \A k \in Calls : outcome[k].kind # "pending" => k \notin listeners
  /\ Cardinality(listeners)
       <= Cardinality({k \in Calls : callPc[k] = "waiting" /\ outcome[k].kind = "pending"})

\* C28: a call whose wait is to end within the per-request timeout although
\* its connection never becomes ready has, once the connection attempt has
\* failed, either settled or a timer running that will settle it.
C28_FailedConnectStillTimed ==
  \A k \in Calls :
    callPc[k] = "connecting" /\ conns[k] = "CLOSED"
      => outcome[k].kind # "pending" \/ timer[k] = "armed"

\* C29: mined() ends only with a transaction that has a block hash, with
\* the timeout or with a transport error; a node that reports no
\* transaction for the hash makes it poll again.
C29_MinedFailsOnlyByTimeout ==
  op = "mined" /\ pc = "done" => result.kind \in {"tx", "Timeout", "TransportError"}

\* C30 as claimed: two transactions whose canonical hex values differ in at
\* least one of the six fields have different unsigned encodings and
\* different digests, data "0x00" and data "0x" included.
C30_EncodingInjectiveOnHex ==
  Changed(txn, signedTx) # {}
    => /\ Encode(txn, FALSE) # Encode(signedTx, FALSE)
       /\ Hash(txn) # Hash(signedTx)

\* C30 as amended: the unsigned encoding is injective on the bytes
\* Hex.toBuffer makes of the six fields: transactions that differ in the
\* bytes of a field have different encodings and digests, and transactions
\* that differ only between "0x" and "0x00" have the same.
C30_EncodingInjectiveOnBytes ==
  (\E f \in SixFields : HexToBuffer(txn[f]) # HexToBuffer(signedTx[f]))
    <=> Encode(txn, FALSE) # Encode(signedTx, FALSE) /\ Hash(txn) # Hash(signedTx)

C30_Witness ==
  /\ Changed(txn, signedTx) = {"nonce", "gasPrice"}
  /\ txn.nonce = <<1>>
  /\ signedTx.nonce = <<0>>
  /\ txn.gasPrice = <<0>>
  /\ signedTx.gasPrice = <<1>>
  /\ Encode(txn, FALSE) # Encode(signedTx, FALSE)

====
